---- MODULE Spec2Model ----
(***************************************************************************)
(* Model of tracker_app.py: a Streamlit script that appends weight, meal   *)
(* and workout rows to three worksheets of a Google spreadsheet and        *)
(* renders a dashboard from them.  One script run (one user interaction)   *)
(* is one action: the pressed button's handler of tab1, then the dashboard *)
(* of tab2, then tab3.                                                     *)
(*                                                                         *)
(* Values.  A Python value or a sheet cell is a record                     *)
(*   [k |-> "t", t |-> text, n |-> 0]   a string, text a sequence of       *)
(*                                      characters/tokens                  *)
(*   [k |-> "n", t |-> <<>>, n |-> x]   a number, x in tenths (70.0 = 700) *)
(*   [k |-> "e", t |-> <<>>, n |-> 0]   a formula cell that evaluates to   *)
(*                                      an error                           *)
(***************************************************************************)
EXTENDS Integers, Sequences, FiniteSets, TLC

VARIABLES
    sheets,   \* the spreadsheet: worksheet name -> sequence of rows, row 1 the header
    client,   \* TRUE once get_gsheets_client has cached the authorized client
    clock,    \* datetime.now() in seconds; it advances when a row is saved
    handler,  \* what the button handler of the last script run did
    page      \* what tab2 and tab3 rendered in the last script run

vars == <<sheets, client, clock, handler, page>>

----------------------------------------------------------------------------
(* Bounds of the model *)

MaxClock == 2        \* button presses explored per session
MaxDashRows == 2     \* length of the freely chosen pre-existing weight sheets

----------------------------------------------------------------------------
(* Values *)

T(t) == [k |-> "t", t |-> t, n |-> 0]
N(x) == [k |-> "n", t |-> <<>>, n |-> x]
ErrCell == [k |-> "e", t |-> <<>>, n |-> 0]

Streams == {"weight", "meals", "workouts"}

WeightColumns == <<"timestamp", "date", "weight_kg", "waist_cm", "sleep_h", "condition", "alcohol">>
MealColumns == <<"timestamp", "date", "meal_slot", "items", "notes">>
WorkoutColumns == <<"timestamp", "date", "workout_type", "duration_min", "notes">>

Columns(s) ==
    IF s = "weight" THEN WeightColumns
    ELSE IF s = "meals" THEN MealColumns
    ELSE WorkoutColumns

HeaderRow(s) == [i \in 1..Len(Columns(s)) |-> T(<<Columns(s)[i]>>)]

\* pandas missing values: NaN for a number, NaT for a date
NaN == -1
NaT == 0

\* rolling(window=7, ...) and tail(10)
Window == 7
RecentN == 10

----------------------------------------------------------------------------
(* Text helpers *)

IsSpace(c) == c = " "
IsDigit(c) == c = "1"

RECURSIVE LStrip(_)
LStrip(t) == IF t # <<>> /\ IsSpace(Head(t)) THEN LStrip(Tail(t)) ELSE t

RECURSIVE RStrip(_)
RStrip(t) ==
    IF t # <<>> /\ IsSpace(t[Len(t)]) THEN RStrip(SubSeq(t, 1, Len(t) - 1)) ELSE t

\* str.strip()
Strip(t) == RStrip(LStrip(t))

IsDigits(t) == t # <<>> /\ \A i \in 1..Len(t) : IsDigit(t[i])

\* the number a digit string denotes, in tenths
RECURSIVE IntOf(_)
IntOf(t) == IF t = <<>> THEN 0 ELSE 10 * IntOf(SubSeq(t, 1, Len(t) - 1)) + 1

NumOf(t) == N(10 * IntOf(t))

DayText == <<"01", "02", "03", "04", "05", "06", "07", "08", "09">>
Days == 1..Len(DayText)

\* date.isoformat()
IsoFormat(d) == <<"2024-01-", DayText[d]>>

\* datetime.now().isoformat(timespec="seconds"): the session starts at second
\* 0 of its day, earlier sessions took the readings below 0
NowIso(c) ==
    IF c < 0 THEN <<"2024-01-08T23:59:", DayText[c + Len(DayText) + 1]>>
    ELSE <<"2024-01-09T00:00:", DayText[c + 1]>>

----------------------------------------------------------------------------
(* Google Sheets helpers *)

\* value_input_option="USER_ENTERED": the sheet parses a string as if it had
\* been typed into a cell.  A number stays a number; a string of digits
\* becomes a number; a string that starts with "=" is a formula and the cell
\* holds what it evaluates to; any other string (the ISO dates and
\* timestamps and the labels included, whose display keeps what was typed)
\* is kept.
UserEntered(v) ==
    IF v.k # "t" THEN v
    ELSE IF IsDigits(v.t) THEN NumOf(v.t)
    ELSE IF Len(v.t) > 1 /\ Head(v.t) = "="
        THEN IF IsDigits(Tail(v.t)) THEN NumOf(Tail(v.t)) ELSE ErrCell
    ELSE v

\* a variant that rewrites the sheet from its header and the new row
WsAppendRow_Rewrite(ws, row) ==
    <<Head(ws)>> \o <<[i \in 1..Len(row) |-> UserEntered(row[i])]>>

\* ws.append_row(row_values, value_input_option="USER_ENTERED")
WsAppendRow(ws, row) == Append(ws, [i \in 1..Len(row) |-> UserEntered(row[i])])

\* gspread's numericise of a cell's displayed value
Numericise(c) ==
    IF c.k = "n" THEN c
    ELSE IF c.k = "e" THEN T(<<"#ERROR!">>)
    ELSE IF IsDigits(c.t) THEN NumOf(c.t)
    ELSE c

\* ws.get_all_records(): row 1 is the header, every later row a record
GetAllRecords(ws) ==
    IF Len(ws) < 2 THEN <<>>
    ELSE LET hdr == ws[1]
             keys == {hdr[i].t[1] : i \in 1..Len(hdr)}
             col == [c \in keys |-> CHOOSE i \in 1..Len(hdr) : hdr[i].t[1] = c]
         IN  [r \in 1..(Len(ws) - 1) |-> [c \in keys |-> Numericise(ws[r + 1][col[c]])]]

\* get_gsheets_client (cached by st.cache_resource) and open_sheet.  fault is
\* the backend call that raises, "none" when none does; the exception's
\* message is the name of the call.
OpenSheet(cl, fault) ==
    LET made == (IF cl THEN <<>> ELSE <<"authorize">>) \o <<"open_by_key">>
    IN  [client |-> TRUE, exc |-> IF fault = "open_by_key" THEN <<fault>> ELSE <<>>,
         calls |-> made]

\* append_row(sheet_name, row_values)
AppendRow(sh, cl, s, row, fault) ==
    LET o == OpenSheet(cl, fault)
    IN  IF o.exc # <<>>
            THEN [sheets |-> sh, client |-> o.client, exc |-> o.exc, calls |-> o.calls]
        ELSE IF fault = "append_row"
            THEN [sheets |-> sh, client |-> o.client, exc |-> <<fault>>,
                  calls |-> o.calls \o <<"worksheet", "append_row">>]
        ELSE [sheets |-> [sh EXCEPT ![s] = WsAppendRow(@, row)], client |-> o.client,
              exc |-> <<>>, calls |-> o.calls \o <<"worksheet", "append_row">>]

\* read_df(sheet_name)
ReadDf(sh, cl, s, fault) ==
    LET o == OpenSheet(cl, fault)
    IN  IF o.exc # <<>> THEN [df |-> <<>>, client |-> o.client, exc |-> o.exc]
        ELSE IF fault = "get_all_records"
            THEN [df |-> <<>>, client |-> o.client, exc |-> <<fault>>]
        ELSE [df |-> GetAllRecords(sh[s]), client |-> o.client, exc |-> <<>>]

\* the backend faults explored: opening the spreadsheet or the request itself
\* fails during an append; the request fails during one of the three reads
AppendFaults == {"none", "open_by_key", "append_row"}

NoReadFault == [at |-> "none", fault |-> "none"]

ReadFaults == {NoReadFault} \cup [at : Streams, fault : {"get_all_records"}]

----------------------------------------------------------------------------
(* Dashboard (tab2) *)

\* pd.to_datetime(..., errors="coerce") on one value
ToDatetime(c) ==
    IF c.k = "t" /\ \E d \in Days : c.t = IsoFormat(d)
        THEN CHOOSE d \in Days : c.t = IsoFormat(d)
        ELSE NaT

\* a variant that reads a non-numeric value as 0
ToNumeric_BlankZero(c) == IF c.k = "n" THEN c.n ELSE 0

\* pd.to_numeric(..., errors="coerce") on one value
ToNumeric(c) == IF c.k = "n" THEN c.n ELSE NaN

\* the positions of S that may come first when sorting by key: a row with
\* the smallest date; once only NaT rows are left, the first of them
FirstOf(key, S) ==
    LET dated == {i \in S : key[i] # NaT}
    IN  IF dated # {}
            THEN {i \in dated : \A j \in dated : key[i] <= key[j]}
            ELSE {i \in S : \A j \in S : i <= j}

\* wdf.sort_values("date"): kind defaults to "quicksort", which is not
\* stable, so rows with equal dates come out in any order; NaT rows are put
\* last in their original order.  The set of row orders it can produce.
RECURSIVE SortOrders(_, _)
SortOrders(key, S) ==
    IF S = {} THEN {<<>>}
    ELSE UNION {{<<i>> \o rest : rest \in SortOrders(key, S \ {i})} : i \in FirstOf(key, S)}

SortValues(key) == SortOrders(key, DOMAIN key)

RECURSIVE SumOf(_, _, _)
SumOf(x, lo, hi) ==
    IF lo > hi THEN 0
    ELSE (IF x[hi] = NaN THEN 0 ELSE x[hi]) + SumOf(x, lo, hi - 1)

Max(a, b) == IF a >= b THEN a ELSE b
Min(a, b) == IF a <= b THEN a ELSE b

\* a variant whose window grows from the first row (an expanding mean)
Rolling_Expanding(x, i) ==
    [sum |-> SumOf(x, 1, i), cnt |-> Cardinality({j \in 1..i : x[j] # NaN})]

\* x.rolling(window=7, min_periods=1).mean() at position i: the sum and the
\* count of the non-missing values among the last Window positions; the
\* mean is sum/cnt and is NaN when cnt = 0
Rolling(x, i) ==
    LET lo == Max(1, i - Window + 1)
    IN  [sum |-> SumOf(x, lo, i),
         cnt |-> Cardinality({j \in lo..i : x[j] # NaN})]

\* f"{float(v):.1f}" of v = sum/cnt tenths: rounded to one decimal, half to
\* even, as <<integer part, decimal digit>>
Fmt1(sum, cnt) ==
    LET q == sum \div cnt
        r == sum % cnt
        up == 2 * r > cnt \/ (2 * r = cnt /\ q % 2 = 1)
        v == IF up THEN q + 1 ELSE q
    IN  <<v \div 10, v % 10>>

\* a variant that is one row off
TailN_OneMore(df, n) == SubSeq(df, Max(1, Len(df) - n), Len(df))

\* df.tail(n)
TailN(df, n) == SubSeq(df, Max(1, Len(df) - n + 1), Len(df))

\* x.dropna() as the positions kept
NotNa(x) == {i \in DOMAIN x : x[i] # NaN}

Last(S) == CHOOSE i \in S : \A j \in S : j <= i

\* lines 138-168: the weight section for one outcome of the sort
WeightSection(wdf, order) ==
    LET date == [j \in DOMAIN order |-> ToDatetime(wdf[order[j]]["date"])]
        weight == [j \in DOMAIN order |-> ToNumeric(wdf[order[j]]["weight_kg"])]
        waist == [j \in DOMAIN order |-> ToNumeric(wdf[order[j]]["waist_cm"])]
        w7 == [j \in DOMAIN order |-> Rolling(weight, j)]
        latest == NotNa(weight)
    IN  [rows |-> order, date |-> date, weight_kg |-> weight, waist_cm |-> waist, w7 |-> w7,
         col1 |-> IF latest = {} THEN <<>> ELSE <<Fmt1(weight[Last(latest)], 1)>>,
         col2 |-> IF latest = {} THEN <<>>
                  ELSE <<Fmt1(w7[Last(latest)].sum, w7[Last(latest)].cnt)>>,
         col3 |-> IF NotNa(waist) = {} THEN <<>> ELSE <<Fmt1(waist[Last(NotNa(waist))], 1)>>,
         chart1 |-> TRUE,
         chart2 |-> NotNa(waist) # {}]

\* a variant in which the error ends the dashboard only, not the script run
StoppedPage_Scoped(e) ==
    [err |-> <<e>>, nodata |-> FALSE, weight |-> <<>>, meals |-> <<>>, workouts |-> <<>>,
     tab3 |-> TRUE]

\* what is on the page after st.error and st.stop() at line 134-135
StoppedPage(e) ==
    [err |-> <<e>>, nodata |-> FALSE, weight |-> <<>>, meals |-> <<>>, workouts |-> <<>>,
     tab3 |-> FALSE]

\* lines 137-191 for data frames read without error
RenderedPage(wdf, mdf, odf, order) ==
    [err |-> <<>>,
     nodata |-> Len(wdf) = 0,
     weight |-> IF Len(wdf) = 0 THEN <<>> ELSE <<WeightSection(wdf, order)>>,
     meals |-> <<TailN(mdf, RecentN)>>,
     workouts |-> <<TailN(odf, RecentN)>>,
     tab3 |-> TRUE]

\* tab2 and tab3 of one script run: the pages it can render and the client
\* cache it leaves, for the read fault rf
Tab2(sh, cl, rf) ==
    LET f(s) == IF rf.at = s THEN rf.fault ELSE "none"
        w == ReadDf(sh, cl, "weight", f("weight"))
        m == ReadDf(sh, w.client, "meals", f("meals"))
        o == ReadDf(sh, m.client, "workouts", f("workouts"))
    IN  IF w.exc # <<>> THEN {[page |-> StoppedPage(w.exc[1]), client |-> w.client]}
        ELSE IF m.exc # <<>> THEN {[page |-> StoppedPage(m.exc[1]), client |-> m.client]}
        ELSE IF o.exc # <<>> THEN {[page |-> StoppedPage(o.exc[1]), client |-> o.client]}
        ELSE {[page |-> RenderedPage(w.df, m.df, o.df, order), client |-> o.client] :
                 order \in SortValues([i \in DOMAIN w.df |-> ToDatetime(w.df[i]["date"])])}

----------------------------------------------------------------------------
(* Today's record (tab1) *)

\* what the widgets can hold: the date, the weight and waist steppers (in
\* tenths; the waist stepper starts at 0, labelled "0 if none"), the free
\* texts.  The select boxes, the sleep stepper and the condition slider are
\* left at their first/default value; meals and workouts are entered for the
\* first date only.
DateInputs == {1, 3}
LogDateInputs == {1}
WeightInputs == {700}
WaistInputs == {0, 800}
ItemsInputs == {<<>>, <<" ">>, <<" ", "a", " ">>, <<"=", "1">>}
NotesInputs == {<<"a", " ">>}
WorkoutNotesInputs == {<<"=", "a">>}

SleepDefault == 70
ConditionDefault == 3
DurationDefault == 60
AlcoholNone == T(<<"none">>)
SlotFirst == T(<<"before work">>)
TypeFirst == T(<<"upper body">>)

\* lines 64-72: the row_values list of the weight button
WeightRow(now, d, weight, waist) ==
    <<T(NowIso(now)), T(IsoFormat(d)), N(weight), N(waist), N(SleepDefault),
      N(10 * ConditionDefault), AlcoholNone>>

\* lines 91-97
MealRow(now, d, items, notes) ==
    <<T(NowIso(now)), T(IsoFormat(d)), SlotFirst, T(Strip(items)), T(Strip(notes))>>

\* lines 113-119
WorkoutRow(now, d, notes) ==
    <<T(NowIso(now)), T(IsoFormat(d)), TypeFirst, N(10 * DurationDefault), T(Strip(notes))>>

NoHandler == [button |-> "none", row |-> <<>>, msg |-> <<>>, calls |-> <<>>]

\* a variant that quietly appends again when the first append raised
Save_Retry(sh, cl, s, row, fault) ==
    LET a == AppendRow(sh, cl, s, row, fault)
        b == AppendRow(a.sheets, a.client, s, row, "none")
    IN  IF a.exc = <<>>
            THEN [sheets |-> a.sheets, client |-> a.client,
                  handler |-> [button |-> s, row |-> row, msg |-> <<"saved">>,
                               calls |-> a.calls]]
            ELSE [sheets |-> b.sheets, client |-> b.client,
                  handler |-> [button |-> s, row |-> row, msg |-> <<"saved">>,
                               calls |-> a.calls \o b.calls]]

\* try: append_row(...); st.success(...)  except Exception as e: st.error(f"... {e}")
Save(sh, cl, s, row, fault) ==
    LET a == AppendRow(sh, cl, s, row, fault)
    IN  [sheets |-> a.sheets, client |-> a.client,
         handler |-> [button |-> s, row |-> row,
                      msg |-> IF a.exc = <<>> THEN <<"saved">> ELSE <<"save failed", a.exc[1]>>,
                      calls |-> a.calls]]

\* a variant without the check of line 85
SaveMeal_NoGate(sh, cl, now, d, items, notes, fault) ==
    Save(sh, cl, "meals", MealRow(now, d, items, notes), fault)

\* lines 84-101: the meal button
SaveMeal(sh, cl, now, d, items, notes, fault) ==
    IF Strip(items) = <<>>
        THEN [sheets |-> sh, client |-> cl,
              handler |-> [button |-> "meals", row |-> <<>>, msg |-> <<"enter what you ate">>,
                           calls |-> <<>>]]
        ELSE Save(sh, cl, "meals", MealRow(now, d, items, notes), fault)

\* the rest of a script run after the button handler: tab2 and tab3
Finish(h) ==
    \E rf \in ReadFaults :
        \E r \in Tab2(h.sheets, h.client, rf) :
            /\ sheets' = h.sheets
            /\ client' = r.client
            /\ clock' = IF h.handler.msg = <<"saved">> THEN clock + 1 ELSE clock
            /\ handler' = h.handler
            /\ page' = r.page

\* a script run with no button pressed (first load, a tab or widget change)
RunIdle ==
    Finish([sheets |-> sheets, client |-> client, handler |-> NoHandler])

RunSaveWeight ==
    /\ clock < MaxClock
    /\ \E d \in DateInputs, weight \in WeightInputs, waist \in WaistInputs :
        \E fault \in AppendFaults :
            Finish(Save(sheets, client, "weight", WeightRow(clock, d, weight, waist), fault))

RunSaveMeal ==
    /\ clock < MaxClock
    /\ \E d \in LogDateInputs, items \in ItemsInputs, notes \in NotesInputs :
        \E fault \in (IF Strip(items) = <<>> THEN {"none"} ELSE AppendFaults) :
            Finish(SaveMeal(sheets, client, clock, d, items, notes, fault))

RunSaveWorkout ==
    /\ clock < MaxClock
    /\ \E d \in LogDateInputs, notes \in WorkoutNotesInputs :
        \E fault \in AppendFaults :
            Finish(Save(sheets, client, "workouts", WorkoutRow(clock, d, notes), fault))

\* rows saved in earlier sessions, written through the same handlers
RECURSIVE OldMeals(_)
OldMeals(n) ==
    IF n = 0 THEN <<HeaderRow("meals")>>
    ELSE WsAppendRow(OldMeals(n - 1), MealRow(0 - n, 1, <<"a">>, <<>>))

RECURSIVE OldWorkouts(_)
OldWorkouts(n) ==
    IF n = 0 THEN <<HeaderRow("workouts")>>
    ELSE WsAppendRow(OldWorkouts(n - 1), WorkoutRow(0 - n, 1, <<>>))

\* the two stores a session starts from, as <<meal rows, workout rows>>: a
\* fresh one, and one whose recent-meals table is one row short of full
OldCounts == {<<0, 0>>, <<RecentN - 1, 0>>}

NoPage ==
    [err |-> <<>>, nodata |-> FALSE, weight |-> <<>>, meals |-> <<>>, workouts |-> <<>>,
     tab3 |-> FALSE]

Init ==
    /\ \E old \in OldCounts :
        sheets = [s \in Streams |->
                    IF s = "weight" THEN <<HeaderRow(s)>>
                    ELSE IF s = "meals" THEN OldMeals(old[1])
                    ELSE OldWorkouts(old[2])]
    /\ client = FALSE
    /\ clock = 0
    /\ handler = NoHandler
    /\ page = NoPage

Next == RunIdle \/ RunSaveWeight \/ RunSaveMeal \/ RunSaveWorkout

Spec == Init /\ [][Next]_vars

----------------------------------------------------------------------------
(* The dashboard over stored weight sheets *)

\* a weight sheet cell left blank, or cleared, in the spreadsheet
Blank == T(<<>>)

\* the weight series of the rolling-mean example, in tenths of a kilogram
P3Series == <<700, 710, 690, 700, 720, 710, 700, 730>>

\* a stored weight row; date 0, weight NaN or waist NaN stand for a blank cell
StoredRow(now, d, weight, waist) ==
    LET row == WeightRow(now, IF d = NaT THEN 1 ELSE d, Max(weight, 0), Max(waist, 0))
    IN  [i \in 1..Len(row) |->
            IF (i = 2 /\ d = NaT) \/ (i = 3 /\ weight = NaN) \/ (i = 4 /\ waist = NaN)
                THEN Blank
                ELSE UserEntered(row[i])]

\* the example series on consecutive dates, the weights of the rows in blanks
\* left blank
SeriesSheet(n, blanks) ==
    <<HeaderRow("weight")>> \o
        [i \in 1..n |-> StoredRow(i - 1, i, IF i \in blanks THEN NaN ELSE P3Series[i], 0)]

StoredRows ==
    {StoredRow(0, d, weight, waist) : d \in {NaT, 1, 3}, weight \in {NaN, 700, 695},
                                      waist \in {NaN, 800}}

RECURSIVE SeqsUpTo(_, _)
SeqsUpTo(S, n) ==
    IF n = 0 THEN {<<>>}
    ELSE LET shorter == SeqsUpTo(S, n - 1)
         IN  shorter \cup {Append(q, x) : q \in shorter, x \in S}

DashSheets ==
    {SeriesSheet(n, blanks) : n \in 1..Len(P3Series), blanks \in SUBSET (1..Len(P3Series))}
        \cup {<<HeaderRow("weight")>> \o q : q \in SeqsUpTo(StoredRows, MaxDashRows)}

InitDash ==
    /\ \E ws \in DashSheets :
        sheets = [s \in Streams |-> IF s = "weight" THEN ws ELSE <<HeaderRow(s)>>]
    /\ client = FALSE
    /\ clock = 0
    /\ handler = NoHandler
    /\ page = NoPage

NextDash == RunIdle

SpecDash == InitDash /\ [][NextDash]_vars

----------------------------------------------------------------------------
(* Properties *)

\* read_all(S): the records a read of stream S returns now
ReadAll(s) == GetAllRecords(sheets[s])

\* the list R handed to append_row, as a record under the schema's columns
RowAsRecord(s, row) ==
    [c \in {Columns(s)[i] : i \in 1..Len(Columns(s))} |->
        row[CHOOSE i \in 1..Len(Columns(s)) : Columns(s)[i] = c]]

IsPrefix(p, q) == Len(p) <= Len(q) /\ \A i \in 1..Len(p) : p[i] = q[i]

Saved == handler.msg = <<"saved">>
SaveFailed == Len(handler.msg) = 2 /\ handler.msg[1] = "save failed"
Rejected == handler.msg = <<"enter what you ate">>
Rendered == page.err = <<>> /\ page.tab3

\* C1 (as claimed): after a successful append of the valid record R to
\* stream S, the next read_all(S) has R as its last row, value for value
\* under the schema's columns.
C1_AppendVisibility ==
    Saved =>
        /\ ReadAll(handler.button) # <<>>
        /\ ReadAll(handler.button)[Len(ReadAll(handler.button))]
               = RowAsRecord(handler.button, handler.row)

\* C2: a meal save with blank items shows the validation error, makes no
\* backend call and leaves every stream as it was; a meal row that reaches
\* the backend never has blank items.
C2_Step ==
    /\ Rejected' => handler'.calls = <<>> /\ handler'.row = <<>> /\ sheets' = sheets
    /\ (handler'.button = "meals" /\ ~Rejected') =>
           /\ handler'.row[4].t # <<>>
           /\ handler'.row[4].t = Strip(handler'.row[4].t)

C2_ValidationGate == [][C2_Step]_vars

C2_Witness == Rejected /\ Len(sheets["meals"]) > 1

\* C3: a submit whose append is attempted makes at most one append_row
\* call and ends in one of two ways: "saved", with exactly one whole row more
\* in its stream, or the error with the backend's message, with every stream
\* and the clock, which is all the guard of a later submit reads, as they
\* were.
AppendCalls(calls) == Cardinality({i \in 1..Len(calls) : calls[i] = "append_row"})

C3_Step ==
    (handler'.button \in Streams /\ ~Rejected') =>
        /\ AppendCalls(handler'.calls) <= 1
        /\ \/ /\ Saved'
              /\ Len(sheets'[handler'.button]) = Len(sheets[handler'.button]) + 1
              /\ Len(sheets'[handler'.button][Len(sheets'[handler'.button])])
                     = Len(Columns(handler'.button))
              /\ IsPrefix(sheets[handler'.button], sheets'[handler'.button])
           \/ /\ SaveFailed'
              /\ handler'.msg[2] \in AppendFaults \ {"none"}
              /\ sheets' = sheets
              /\ clock' = clock

C4_Step ==
    /\ \A s \in Streams : IsPrefix(sheets[s], sheets'[s])
    /\ Saved' =>
           /\ Len(sheets'[handler'.button]) = Len(sheets[handler'.button]) + 1
           /\ \A s \in Streams \ {handler'.button} : sheets'[s] = sheets[s]
    /\ ~Saved' => sheets' = sheets

HeaderOnce ==
    \A s \in Streams :
        /\ sheets[s][1] = HeaderRow(s)
        /\ \A i \in 2..Len(sheets[s]) : sheets[s][i] # HeaderRow(s)

C4_AppendOnly == [][C4_Step]_vars /\ []HeaderOnce

C4_Witness == Saved /\ \A s \in Streams : Len(sheets[s]) > 1

\* C8: when the weight stream has no data row and the reads succeed, the
\* page shows the no-data notice and no weight section (no metric, no rolling
\* mean, no chart), and each recent table holds the last min(10, n) records
\* of its own stream, in insertion order and as read.
IsLastRows(tbl, df) ==
    /\ Len(tbl) = Min(RecentN, Len(df))
    /\ \A i \in 1..Len(tbl) : tbl[i] = df[Len(df) - Len(tbl) + i]

C8_EmptyWeight ==
    (Rendered /\ ReadAll("weight") = <<>>) =>
        /\ page.nodata
        /\ page.weight = <<>>
        /\ Len(page.meals) = 1 /\ IsLastRows(page.meals[1], ReadAll("meals"))
        /\ Len(page.workouts) = 1 /\ IsLastRows(page.workouts[1], ReadAll("workouts"))

C8_Witness ==
    /\ Rendered
    /\ ReadAll("weight") = <<>>
    /\ Len(ReadAll("meals")) > RecentN
    /\ Len(ReadAll("workouts")) < RecentN

\* C9 (as claimed): when a read fails, the sections fed by the streams that
\* were read and the rest of the page are still rendered: at least two of
\* the three sections, and tab3.
SectionsShown ==
    {x \in {"weight", "meals", "workouts"} :
        \/ x = "weight" /\ (page.nodata \/ page.weight # <<>>)
        \/ x = "meals" /\ page.meals # <<>>
        \/ x = "workouts" /\ page.workouts # <<>>}

C9_ScopedReadFailure ==
    page.err # <<>> => page.tab3 /\ Cardinality(SectionsShown) >= 2

\* C9 (amended): when a read fails for any of the three streams, the error
\* with the backend's message is shown and the run stops there: no section
\* of the dashboard and nothing after it (tab3) is rendered; the failure
\* changes no stream.
C9_Step ==
    page'.err # <<>> =>
        /\ page'.err \in {<<f.fault>> : f \in ReadFaults \ {NoReadFault}}
        /\ SectionsShown' = {}
        /\ ~page'.tab3
        /\ ~Saved' => sheets' = sheets

C9_ReadFailureStops == [][C9_Step]_vars

C9_Witness == page.err # <<>> /\ \A s \in Streams : Len(sheets[s]) > 1

\* C10 (as claimed): a waist of 0 is an absent waist: the latest-waist
\* metric is the waist of the last row in date order with a positive
\* waist_cm, metric and waist chart are absent when no row has one, and 0 is
\* never shown as the latest waist.
C10_WaistZeroAbsent ==
    page.weight # <<>> =>
        LET w == page.weight[1]
            positive == {j \in DOMAIN w.waist_cm : w.waist_cm[j] # NaN /\ w.waist_cm[j] > 0}
        IN  /\ positive = {} => w.col3 = <<>> /\ ~w.chart2
            /\ positive # {} => w.col3 = <<Fmt1(w.waist_cm[Last(positive)], 1)>>
            /\ w.col3 # <<Fmt1(0, 1)>>

\* C5 (as claimed): for the example series on 8 consecutive dates the
\* rolling mean at index 7 is the mean of all 8 values, 70.75, and at index 0
\* it is 70.0.  (A mean sum/cnt in tenths equals 70.75 when 2 * sum = 1415 *
\* cnt.)
P3Rendered == Rendered /\ sheets["weight"] = SeriesSheet(Len(P3Series), {})

C5_RollingExample ==
    P3Rendered =>
        LET w7 == page.weight[1].w7
        IN  /\ 2 * w7[8].sum = 1415 * w7[8].cnt
            /\ w7[1].sum = 700 * w7[1].cnt

\* C5 (amended): for the example series the rolling mean at index 7 is the
\* mean of the last 7 values (indices 1..7), 496/7 = 70.857..., and at index
\* 0 it is 70.0.
C5_RollingExampleWindow ==
    P3Rendered =>
        LET w7 == page.weight[1].w7
        IN  /\ 7 * w7[8].sum = 4960 * w7[8].cnt
            /\ w7[1].sum = 700 * w7[1].cnt

C5_Witness == P3Rendered /\ page.weight[1].w7[8].cnt = Window

\* C6: the rendered weight table holds every stored row once, in ascending
\* date order with the undated rows last; at each position j the rolling
\* value is the mean of the numeric weight_kg cells among positions
\* max(1, j-6)..j, missing exactly when there is none; a row whose weight_kg
\* is not a number adds nothing to any sum or count.
RECURSIVE SumOver(_, _)
SumOver(S, val) ==
    IF S = {} THEN 0
    ELSE LET i == CHOOSE i \in S : TRUE IN val[i] + SumOver(S \ {i}, val)

C6_RollingMean ==
    (Rendered /\ page.weight # <<>>) =>
        LET w == page.weight[1]
            df == ReadAll("weight")
            n == Len(df)
            cell(j) == df[w.rows[j]]["weight_kg"]
        IN  /\ Len(w.rows) = n
            /\ {w.rows[j] : j \in 1..n} = 1..n
            /\ \A i, j \in 1..n :
                   i < j => \/ w.date[j] = NaT
                            \/ (w.date[i] # NaT /\ w.date[i] <= w.date[j])
            /\ \A j \in 1..n :
                   LET present == {i \in Max(1, j - 6)..j : cell(i).k = "n"}
                   IN  /\ w.w7[j].cnt = Cardinality(present)
                       /\ w.w7[j].sum = SumOver(present, [i \in present |-> cell(i).n])

C6_Witness ==
    /\ Rendered /\ page.weight # <<>>
    /\ Len(ReadAll("weight")) > Window
    /\ \E j \in DOMAIN page.weight[1].w7 : page.weight[1].w7[j].cnt = 0
    /\ page.weight[1].w7[Window + 1].cnt \in 1..(Window - 1)

\* C7 (as claimed): with the rows sorted by date, equal dates kept in
\* insertion order and undated rows last, the latest weight is the weight of
\* the last row with a weight, the latest rolling average is the rolling
\* value of that row, and the latest waist is the waist of the last row with a
\* waist; each is absent when no row qualifies.  For the rows 2024-01-01 =
\* 70.0 kg / waist 80 and 2024-01-03 = 69.5 kg / no waist, in either
\* insertion order, the latest weight is 69.5 and the latest waist 80.
RECURSIVE StableOrder(_, _)
StableOrder(key, S) ==
    IF S = {} THEN <<>>
    ELSE LET i == CHOOSE i \in FirstOf(key, S) : \A j \in FirstOf(key, S) : i <= j
         IN  <<i>> \o StableOrder(key, S \ {i})

P7Rows == {StoredRow(0, 1, 700, 800), StoredRow(0, 3, 695, NaN)}

C7_LatestValues ==
    (Rendered /\ page.weight # <<>>) =>
        LET w == page.weight[1]
            df == ReadAll("weight")
            ord == StableOrder([i \in DOMAIN df |-> ToDatetime(df[i]["date"])], DOMAIN df)
            weight == [j \in DOMAIN ord |-> ToNumeric(df[ord[j]]["weight_kg"])]
            waist == [j \in DOMAIN ord |-> ToNumeric(df[ord[j]]["waist_cm"])]
            lw == Last(NotNa(weight))
        IN  /\ w.col1 = IF NotNa(weight) = {} THEN <<>> ELSE <<Fmt1(weight[lw], 1)>>
            /\ w.col2 = IF NotNa(weight) = {} THEN <<>>
                        ELSE <<Fmt1(Rolling(weight, lw).sum, Rolling(weight, lw).cnt)>>
            /\ w.col3 = IF NotNa(waist) = {} THEN <<>>
                        ELSE <<Fmt1(waist[Last(NotNa(waist))], 1)>>
            /\ (Len(sheets["weight"]) = 3 /\ {sheets["weight"][2], sheets["weight"][3]} = P7Rows)
                   => w.col1 = <<<<69, 5>>>> /\ w.col3 = <<<<80, 0>>>>

====
